---- MODULE Spec2Model ----
(***************************************************************************)
(* A model of ResultsListController (src/src/ResultsListController.ts):   *)
(* the row store, the post-filter membership list, the filter state, the  *)
(* view settings and the settings source they are reconciled against.     *)
(*                                                                         *)
(* Strings are sequences of one-character strings, so that trimming, case  *)
(* folding and regular-expression search are computed and not assumed.     *)
(***************************************************************************)
EXTENDS Integers, Sequences, FiniteSets, TLC

\* ------------------------------------------------------------------ bounds

\* Largest number of rows the store holds in the model.
MaxRows == 3
\* Longest batch handed to updateResultsListData in the model.
MaxBatch == 2
\* Most settings writes (sarifConfig.update) in flight at one time.
MaxPending == 2
\* Most open/reveal promise chains in flight at one time.
MaxReveals == 1

\* ----------------------------------------------------------------- strings

\* JavaScript's undefined. Every real string is a sequence of one-character
\* strings, so this value is different from all of them.
Undefined == <<"undefined">>

\* String(undefined), what RegExp.prototype.test and localeCompare see.
UndefinedText == <<"u", "n", "d", "e", "f", "i", "n", "e", "d">>

ToText(v) == IF v = Undefined THEN UndefinedText ELSE v

LowerLetters ==
    <<"a", "b", "c", "d", "e", "f", "g", "h", "i", "j", "k", "l", "m",
      "n", "o", "p", "q", "r", "s", "t", "u", "v", "w", "x", "y", "z">>

UpperLetters ==
    <<"A", "B", "C", "D", "E", "F", "G", "H", "I", "J", "K", "L", "M",
      "N", "O", "P", "Q", "R", "S", "T", "U", "V", "W", "X", "Y", "Z">>

\* The characters of the model's strings.
Chars ==
    {LowerLetters[i] : i \in 1..26} \cup {UpperLetters[i] : i \in 1..26}
    \cup {"0", "1", "2", "3", "4", "5", "6", "7", "8", "9"}
    \cup {" ", ",", ".", "(", ")", "/"}

UpperChars == {UpperLetters[i] : i \in 1..26}

IsUpper(c) == c \in UpperChars

\* The lower-case form of every character, as toLowerCase and the i flag
\* of a RegExp give it.
LowerTable ==
    [c \in Chars |->
        IF c \in UpperChars
        THEN LowerLetters[CHOOSE i \in 1..26 : UpperLetters[i] = c]
        ELSE c]

LowerChar(c) == LowerTable[c]

ToLowerCase(s) == [i \in 1..Len(s) |-> LowerChar(s[i])]

RECURSIVE TrimStart(_)
TrimStart(s) == IF s # <<>> /\ Head(s) = " " THEN TrimStart(Tail(s)) ELSE s

RECURSIVE TrimEnd(_)
TrimEnd(s) ==
    IF s # <<>> /\ s[Len(s)] = " " THEN TrimEnd(SubSeq(s, 1, Len(s) - 1)) ELSE s

\* String.prototype.trim
Trim(s) == TrimEnd(TrimStart(s))

\* ------------------------------------------------------- regular expressions

\* new RegExp(pattern, flags) throws a SyntaxError on an unterminated group.
\* Over the characters of the model (letters, digits, ".", " ", "(") a pattern
\* is well formed exactly when it contains no "(".
RegExpThrows(pattern) ==
    /\ pattern # Undefined
    /\ \E i \in 1..Len(pattern) : pattern[i] = "("

\* One pattern atom against one character: "." is any character, every
\* other atom is a literal; the i flag folds case on both sides.
AtomMatches(atom, c, ignoreCase) ==
    \/ atom = "."
    \/ IF ignoreCase THEN LowerChar(atom) = LowerChar(c) ELSE atom = c

\* RegExp.prototype.test: an unanchored search. new RegExp(undefined) is
\* /(?:)/, which matches every string; test(undefined) searches "undefined".
RegExpTest(regExp, value) ==
    LET s == ToText(value)
        p == regExp.source
    IN  \/ p = Undefined
        \/ \E off \in 0..(Len(s) - Len(p)) :
              \A i \in 1..Len(p) : AtomMatches(p[i], s[off + i], regExp.ignoreCase)

\* ------------------------------------------------------------ the feed's data

\* SeverityLevelOrder (./common/Enums), in the order createResultsListRow's
\* switch lists the levels.
SeverityLevelOrder(level) ==
    CASE level = <<"e", "r", "r", "o", "r">> -> 0
      [] level = <<"w", "a", "r", "n", "i", "n", "g">> -> 1
      [] level = <<"o", "p", "e", "n">> -> 2
      [] level = <<"p", "a", "s", "s">> -> 3
      [] level = <<"n", "o", "t", "A", "p", "p", "l", "i", "c", "a", "b", "l", "e">> -> 4
      [] level = <<"n", "o", "t", "e">> -> 5
      [] OTHER -> -1

\* SVDiagnosticCollection.getRunInfo: the SARIF file each run was read from.
RunInfo(runId) ==
    IF runId = 1
    THEN [sarifFileName |-> <<"s">>, sarifFileFullPath |-> <<"/", "s">>]
    ELSE [sarifFileName |-> <<"t">>, sarifFileFullPath |-> <<"/", "t">>]

NoLocation == [fileName |-> Undefined, fsPath |-> Undefined, line |-> -1, character |-> -1]

\* The ResultInfo records the feed delivers in the model: three results, one
\* of them (run 1, result 1) in two versions, so that an update can change
\* which filters a stored row passes. Results 1 and 2 of run 1 are in files
\* of the same short name in different directories; result 1 of run 2 has no
\* location and no rule name.
Diag1 ==
    [runId |-> 1, id |-> 1, message |-> <<"a", "b">>, ruleId |-> <<"R", "1">>,
     ruleName |-> <<"N">>, severityLevel |-> <<"e", "r", "r", "o", "r">>,
     location |-> [fileName |-> <<"a", ".", "c">>, fsPath |-> <<"/", "x", "/", "a", ".", "c">>,
                   line |-> 1, character |-> 8]]

Diag1b ==
    [runId |-> 1, id |-> 1, message |-> <<"c", "d">>, ruleId |-> <<"R", "1">>,
     ruleName |-> <<"N">>, severityLevel |-> <<"e", "r", "r", "o", "r">>,
     location |-> [fileName |-> <<"a", ".", "c">>, fsPath |-> <<"/", "x", "/", "a", ".", "c">>,
                   line |-> 1, character |-> 8]]

Diag2 ==
    [runId |-> 1, id |-> 2, message |-> <<"b">>, ruleId |-> <<"R", "2">>,
     ruleName |-> <<"L">>, severityLevel |-> <<"w", "a", "r", "n", "i", "n", "g">>,
     location |-> [fileName |-> <<"a", ".", "c">>, fsPath |-> <<"/", "y", "/", "a", ".", "c">>,
                   line |-> 1, character |-> 4]]

Diag3 ==
    [runId |-> 2, id |-> 1, message |-> <<"c">>, ruleId |-> <<"R", "1">>,
     ruleName |-> Undefined, severityLevel |-> <<"n", "o", "t", "e">>,
     location |-> NoLocation]

Diags == {Diag1, Diag1b, Diag2, Diag3}

\* `${runId}_${id}`: both parts are numbers, so the text determines the pair.
RowId(runId, id) == <<runId, id>>

DiagId(d) == RowId(d.runId, d.id)

Ids == {DiagId(d) : d \in Diags}

\* ---------------------------------------------------------------------- rows

NoPos == <<>>

TypeOf(v) == IF v = Undefined THEN "undefined" ELSE "string"

\* A ResultsListValue: the display value with its JavaScript type, the
\* tooltip, and the typed sort keys of the position and severity variants.
StringValue(v, tip) ==
    [value |-> v, type |-> TypeOf(v), tooltip |-> tip, pos |-> NoPos,
     isSeverity |-> FALSE, severityLevelOrder |-> -1]

NumberValue(n) ==
    [value |-> n, type |-> "number", tooltip |-> Undefined, pos |-> NoPos,
     isSeverity |-> FALSE, severityLevelOrder |-> -1]

SeverityValue(level) ==
    [value |-> level, type |-> TypeOf(level), tooltip |-> Undefined, pos |-> NoPos,
     isSeverity |-> TRUE, severityLevelOrder |-> SeverityLevelOrder(level)]

\* `(${line + 1}, ${character + 1})` over the raw 0-based position.
PositionValue(line, character) ==
    [value |-> <<"(", line + 1, ",", " ", character + 1, ")">>, type |-> "string",
     tooltip |-> Undefined, pos |-> <<line, character>>,
     isSeverity |-> FALSE, severityLevelOrder |-> -1]

\* new Position(0, 0) with the literal text "(0, 0)".
NoPositionValue ==
    [value |-> <<"(", 0, ",", " ", 0, ")">>, type |-> "string",
     tooltip |-> Undefined, pos |-> <<0, 0>>,
     isSeverity |-> FALSE, severityLevelOrder |-> -1]

NoLocationText == <<"N", "o", " ", "L", "o", "c", "a", "t", "i", "o", "n">>

createResultsListRow(resultInfo) ==
    LET run == RunInfo(resultInfo.runId)
        loc == resultInfo.location
    IN  [message |-> StringValue(resultInfo.message, Undefined),
         resultId |-> NumberValue(resultInfo.id),
         ruleId |-> StringValue(resultInfo.ruleId, Undefined),
         ruleName |-> StringValue(resultInfo.ruleName, Undefined),
         runId |-> NumberValue(resultInfo.runId),
         sarifFile |-> StringValue(run.sarifFileName, run.sarifFileFullPath),
         severityLevel |-> SeverityValue(resultInfo.severityLevel),
         resultFile |-> IF loc # NoLocation
                        THEN StringValue(loc.fileName, loc.fsPath)
                        ELSE StringValue(NoLocationText, Undefined),
         resultStartPos |-> IF loc # NoLocation
                            THEN PositionValue(loc.line, loc.character)
                            ELSE NoPositionValue]

RowFields ==
    {"message", "resultId", "ruleId", "ruleName", "runId", "sarifFile",
     "severityLevel", "resultFile", "resultStartPos"}

\* The keys initializeColumns gives this.columns.
ColumnKeys ==
    {"message", "resultFile", "resultStartPos", "ruleId", "ruleName", "runId",
     "sarifFile", "severityLevel"}

\* ------------------------------------------------------- sequences and maps

\* Array.prototype.indexOf, 0-based, -1 when absent.
IndexOf(seq, x) ==
    IF \E i \in 1..Len(seq) : seq[i] = x
    THEN (CHOOSE i \in 1..Len(seq) : seq[i] = x /\ \A j \in 1..(i - 1) : seq[j] # x) - 1
    ELSE -1

\* Array.prototype.splice(index) with no delete count: everything from index
\* to the end of the array is removed.
SpliceFrom(seq, index) == SubSeq(seq, 1, index)

\* Array.prototype.splice(index, 1): the one element at index is removed.
SpliceOne(seq, index) == SubSeq(seq, 1, index) \o SubSeq(seq, index + 2, Len(seq))

\* A Map is the sequence of its entries in insertion order.
MapKeys(map) == {map[i].key : i \in 1..Len(map)}

MapHas(map, key) == key \in MapKeys(map)

MapGet(map, key) == map[CHOOSE i \in 1..Len(map) : map[i].key = key].value

\* Map.prototype.set: an existing key keeps its place, a new key goes last.
MapSet(map, key, value) ==
    IF MapHas(map, key)
    THEN [i \in 1..Len(map) |-> IF map[i].key = key THEN [key |-> key, value |-> value] ELSE map[i]]
    ELSE Append(map, [key |-> key, value |-> value])

\* Map.prototype.delete
MapDelete(map, key) == SelectSeq(map, LAMBDA e : e.key # key)

\* ------------------------------------------------------------------- filter

\* generateFilterRegExp: the i flag unless the case must match; no pattern
\* at all when the filter text is empty.
generateFilterRegExp(text, caseMatch) ==
    [source |-> IF text # <<>> THEN text ELSE Undefined, ignoreCase |-> ~caseMatch]

generateFilterRegExpThrows(text) == text # <<>> /\ RegExpThrows(text)

applyFilterToRow(row, regExp) ==
    \/ RegExpTest(regExp, row.message.value)
    \/ RegExpTest(regExp, row.ruleId.value)
    \/ RegExpTest(regExp, row.ruleName.value)
    \/ RegExpTest(regExp, row.severityLevel.value)
    \/ RegExpTest(regExp, row.resultFile.value)
    \/ RegExpTest(regExp, row.sarifFile.value)

\* updateFilteredRowsList after the list has been emptied and the RegExp
\* built: the keys of the passing rows in the store's iteration order.
RECURSIVE FilterRows(_, _, _)
FilterRows(map, text, regExp) ==
    IF map = <<>> THEN <<>>
    ELSE LET e == Head(map)
             rest == FilterRows(Tail(map), text, regExp)
         IN  IF text = <<>> \/ applyFilterToRow(e.value, regExp)
             THEN <<e.key>> \o rest
             ELSE rest

\* --------------------------------------------------------------- comparison

\* The order String.prototype.localeCompare gives the characters of the
\* model: space, punctuation, digits, then letters, a letter's two cases
\* together.
CollationOrder ==
    <<" ", ",", ".", "(", ")", "/", "0", "1", "2", "3", "4", "5", "6", "7", "8", "9">>
    \o LowerLetters

PrimaryTable ==
    [c \in Chars |-> CHOOSE i \in 1..Len(CollationOrder) : CollationOrder[i] = LowerChar(c)]

PrimaryWeight(c) == PrimaryTable[c]

RECURSIVE ComparePrimary(_, _)
ComparePrimary(a, b) ==
    IF a = <<>> /\ b = <<>> THEN 0
    ELSE IF a = <<>> THEN -1
    ELSE IF b = <<>> THEN 1
    ELSE IF PrimaryWeight(Head(a)) < PrimaryWeight(Head(b)) THEN -1
    ELSE IF PrimaryWeight(Head(a)) > PrimaryWeight(Head(b)) THEN 1
    ELSE ComparePrimary(Tail(a), Tail(b))

\* Strings equal but for case: the first difference decides, lower case first.
RECURSIVE CompareCase(_, _)
CompareCase(a, b) ==
    IF a = <<>> \/ b = <<>> THEN 0
    ELSE IF Head(a) = Head(b) THEN CompareCase(Tail(a), Tail(b))
    ELSE IF IsUpper(Head(b)) THEN -1 ELSE 1

\* a.localeCompare(b); an undefined argument is compared as "undefined".
LocaleCompare(a, b) ==
    LET tb == ToText(b)
        primary == ComparePrimary(a, tb)
    IN  IF primary # 0 THEN primary ELSE CompareCase(a, tb)

\* CompareRows that compares positions by line only.
CompareRowsByLine(a, b, sortBy) ==
    LET valueA == IF sortBy.ascending THEN a[sortBy.column] ELSE b[sortBy.column]
        valueB == IF sortBy.ascending THEN b[sortBy.column] ELSE a[sortBy.column]
    IN  IF valueA.type = "undefined"
        THEN (IF valueB.type = "undefined" THEN 0 ELSE -1)
        ELSE IF valueA.pos # NoPos THEN valueA.pos[1] - valueB.pos[1]
        ELSE IF valueA.isSeverity
        THEN valueA.severityLevelOrder - valueB.severityLevelOrder
        ELSE IF valueA.type = "number" THEN valueA.value - valueB.value
        ELSE LocaleCompare(valueA.value, valueB.value)

\* The comparator getResultData hands to group.rows.sort: the operands are
\* swapped for a descending sort, then compared by the first applicable rule.
CompareRows(a, b, sortBy) ==
    LET valueA == IF sortBy.ascending THEN a[sortBy.column] ELSE b[sortBy.column]
        valueB == IF sortBy.ascending THEN b[sortBy.column] ELSE a[sortBy.column]
    IN  IF valueA.type = "undefined"
        THEN (IF valueB.type = "undefined" THEN 0 ELSE -1)
        ELSE IF valueA.pos # NoPos
        THEN (IF valueA.pos[1] - valueB.pos[1] # 0
              THEN valueA.pos[1] - valueB.pos[1]
              ELSE valueA.pos[2] - valueB.pos[2])
        ELSE IF valueA.isSeverity
        THEN valueA.severityLevelOrder - valueB.severityLevelOrder
        ELSE IF valueA.type = "number"
        THEN valueA.value - valueB.value
        ELSE LocaleCompare(valueA.value, valueB.value)

\* Array.prototype.sort on the short arrays of the model is an insertion
\* sort: each element is moved left past the elements the comparator puts
\* after it. SortRows is group.rows.sort with the row comparator.
RECURSIVE InsertRow(_, _, _)
InsertRow(sorted, element, sortBy) ==
    IF sorted = <<>> THEN <<element>>
    ELSE IF CompareRows(sorted[Len(sorted)], element, sortBy) > 0
    THEN Append(InsertRow(SubSeq(sorted, 1, Len(sorted) - 1), element, sortBy),
                sorted[Len(sorted)])
    ELSE Append(sorted, element)

RECURSIVE SortRows(_, _)
SortRows(array, sortBy) ==
    IF array = <<>> THEN <<>>
    ELSE InsertRow(SortRows(SubSeq(array, 1, Len(array) - 1), sortBy),
                   array[Len(array)], sortBy)

\* --------------------------------------------------------------- projection

\* GroupKey that takes the display value for the two file columns, too.
GroupKeyByValue(row, groupBy) == row[groupBy].value

\* The key getResultData buckets a row by: the display value of the groupBy
\* field, the tooltip (full path) for the two file columns.
GroupKey(row, groupBy) ==
    IF groupBy = "sarifFile" \/ groupBy = "resultFile"
    THEN row[groupBy].tooltip
    ELSE row[groupBy].value

\* BuildGroups that looks for the key in the group added last only, so that
\* rows of one key separated by another key start a second group.
RECURSIVE BuildGroupsAdjacent(_, _, _, _)
BuildGroupsAdjacent(groups, ids, rows, groupBy) ==
    IF ids = <<>> THEN groups
    ELSE LET row == MapGet(rows, Head(ids))
             key == GroupKey(row, groupBy)
             next ==
                 IF groups # <<>> /\ groups[Len(groups)].key = key
                 THEN [groups EXCEPT ![Len(groups)].rows = Append(@, row)]
                 ELSE Append(groups, [key |-> key, rows |-> <<row>>,
                                      text |-> row[groupBy].value,
                                      tooltip |-> row[groupBy].tooltip])
         IN  BuildGroupsAdjacent(next, Tail(ids), rows, groupBy)

\* The groups Map after the forEach over postFilterListRows: a row joins the
\* group of its key, or starts one that takes its text and tooltip.
RECURSIVE BuildGroups(_, _, _, _)
BuildGroups(groups, ids, rows, groupBy) ==
    IF ids = <<>> THEN groups
    ELSE LET row == MapGet(rows, Head(ids))
             key == GroupKey(row, groupBy)
             next ==
                 IF \E i \in 1..Len(groups) : groups[i].key = key
                 THEN [i \in 1..Len(groups) |->
                          IF groups[i].key = key
                          THEN [groups[i] EXCEPT !.rows = Append(@, row)]
                          ELSE groups[i]]
                 ELSE Append(groups, [key |-> key, rows |-> <<row>>,
                                      text |-> row[groupBy].value,
                                      tooltip |-> row[groupBy].tooltip])
         IN  BuildGroups(next, Tail(ids), rows, groupBy)

\* CompareGroups with the operands the other way round: fewer rows first.
CompareGroupsAscending(a, b) == Len(a.rows) - Len(b.rows)

\* The comparator of data.groups.sort: more rows first.
CompareGroups(a, b) == Len(b.rows) - Len(a.rows)

RECURSIVE InsertGroup(_, _)
InsertGroup(sorted, element) ==
    IF sorted = <<>> THEN <<element>>
    ELSE IF CompareGroups(sorted[Len(sorted)], element) > 0
    THEN Append(InsertGroup(SubSeq(sorted, 1, Len(sorted) - 1), element),
                sorted[Len(sorted)])
    ELSE Append(sorted, element)

\* data.groups.sort
RECURSIVE SortGroups(_)
SortGroups(array) ==
    IF array = <<>> THEN <<>>
    ELSE InsertGroup(SortGroups(SubSeq(array, 1, Len(array) - 1)), array[Len(array)])

\* getResultData fails with a TypeError when a member id has no row, when
\* groupBy names no row field, or when the comparator reads a missing column.
getResultDataThrows(rows, member, groupBy, sortBy) ==
    \/ \E i \in 1..Len(member) : ~MapHas(rows, member[i])
    \/ member # <<>> /\ groupBy \notin RowFields
    \/ /\ sortBy.column \notin RowFields
       /\ \E g \in 1..Len(BuildGroups(<<>>, member, rows, groupBy)) :
             Len(BuildGroups(<<>>, member, rows, groupBy)[g].rows) > 1

getResultData(rows, member, columns, caseMatch, text, groupBy, sortBy) ==
    LET built == BuildGroups(<<>>, member, rows, groupBy)
        ordered == SortGroups(built)
    IN  [columns |-> columns,
         filterCaseMatch |-> caseMatch,
         filterText |-> text,
         groupBy |-> groupBy,
         groups |-> [i \in 1..Len(ordered) |->
                        [rows |-> SortRows(ordered[i].rows, sortBy),
                         text |-> ordered[i].text,
                         tooltip |-> ordered[i].tooltip]],
         resultCount |-> Len(rows),
         sortBy |-> sortBy]

\* -------------------------------------------------------------------- state

VARIABLES
    resultsListRows,    \* this.resultsListRows: the Map from row id to row
    postFilterListRows, \* this.postFilterListRows: the ids passing the filter
    filterCaseMatch,    \* this.filterCaseMatch
    filterText,         \* this.filterText
    columns,            \* this.columns: the hide flag of every column
    groupBy,            \* this.groupBy
    sortBy,             \* this.sortBy
    config,             \* the settings source (workspace configuration)
    pendingUpdates,     \* sarifConfig.update calls not yet written
    reveals,            \* the open/reveal promise chains in flight
    op,                 \* the operation that ran last
    threw,              \* whether it ended with an exception
    posted              \* the data it handed to setResultsListData, in order

engine == <<resultsListRows, postFilterListRows, filterCaseMatch, filterText,
            columns, groupBy, sortBy>>

vars == <<resultsListRows, postFilterListRows, filterCaseMatch, filterText,
          columns, groupBy, sortBy, config, pendingUpdates, reveals,
          op, threw, posted>>

\* ------------------------------------------------------------------- inputs

\* Batches of the feed: one to MaxBatch diagnostics.
RECURSIVE SeqsUpTo(_, _)
SeqsUpTo(S, n) ==
    IF n = 0 THEN {<<>>}
    ELSE LET shorter == SeqsUpTo(S, n - 1)
         IN  shorter \cup {Append(q, x) : q \in {r \in shorter : Len(r) = n - 1}, x \in S}

Batches == SeqsUpTo(Diags, MaxBatch) \ {<<>>}

\* The batches a log's diagnostics arrive in when it is opened: one
\* diagnostic or two.
FirstBatches == {<<d>> : d \in Diags} \cup {<<d, e>> : d \in Diags, e \in Diags}

\* Texts typed into the filter box: a literal, the same with surrounding
\* blanks, another case of it, a wildcard, an unterminated group, nothing.
FilterInputs == {<<>>, <<"b">>, <<" ", "b", " ">>, <<"B">>, <<".", "d">>, <<"(">>}

\* Column keys the web view sends with column-toggle, group-change and
\* sort-change messages, and the values the settings start with.
ToggleColumns == {"message"}
GroupColumns == {"resultFile", "ruleId"}
SortColumns == {"resultStartPos", "ruleName"}

\* The settings the user may have stored when the controller is constructed.
InitialSettings ==
    {[hideColumns |-> <<>>, groupBy |-> "resultFile",
      sortBy |-> [column |-> "resultStartPos", ascending |-> TRUE]],
     [hideColumns |-> <<"message">>, groupBy |-> "ruleId",
      sortBy |-> [column |-> "ruleName", ascending |-> FALSE]]}

\* Stored settings that group by the log file or by the result's file.
FileSettings ==
    {[hideColumns |-> <<>>, groupBy |-> "sarifFile",
      sortBy |-> [column |-> "resultStartPos", ascending |-> TRUE]],
     [hideColumns |-> <<>>, groupBy |-> "resultFile",
      sortBy |-> [column |-> "resultStartPos", ascending |-> FALSE]]}

\* Settings edited by hand in the settings file: a sort-by value without a
\* column (the comparator then reads the property "undefined" of a row), and
\* one whose column is no field of a row.
MalformedSettings ==
    {[hideColumns |-> <<>>, groupBy |-> "ruleId",
      sortBy |-> [column |-> "undefined", ascending |-> TRUE]],
     [hideColumns |-> <<>>, groupBy |-> "resultFile",
      sortBy |-> [column |-> "rank", ascending |-> FALSE]]}

\* ------------------------------------------------------------ settings check

Elements(seq) == {seq[i] : i \in 1..Len(seq)}

\* checkIfColumnsChanged: every column's hide flag follows the hidden list.
ColumnsFrom(hideCols) == [col \in ColumnKeys |-> IndexOf(hideCols, col) # -1]

checkIfColumnsChanged(cols, hideCols) == \E col \in ColumnKeys : ColumnsFrom(hideCols)[col] # cols[col]

checkIfGroupByChanged(current, group) == group # current

\* checkIfSortByChanged compares object references: the sort-by object the
\* settings source returns is another object whenever its contents differ
\* from this.sortBy, and may be another object (sameObject false) when they
\* are equal.
checkIfSortByChanged(current, sort, sameObject) == sort # current \/ ~sameObject

\* postDataToExplorer: the projection handed to setResultsListData, none when
\* getResultData throws.
PostData(rows, member, cols, caseMatch, text, group, sort) ==
    IF getResultDataThrows(rows, member, group, sort)
    THEN <<>>
    ELSE <<getResultData(rows, member, cols, caseMatch, text, group, sort)>>

\* onSettingsChanged for an event that affects the section (or no event),
\* reading the settings cfg.
SettingsChanged(cfg, sameObject, name) ==
    LET changed == \/ checkIfColumnsChanged(columns, cfg.hideColumns)
                   \/ checkIfGroupByChanged(groupBy, cfg.groupBy)
                   \/ checkIfSortByChanged(sortBy, cfg.sortBy, sameObject)
        cols == ColumnsFrom(cfg.hideColumns)
    IN  /\ columns' = cols
        /\ groupBy' = cfg.groupBy
        /\ sortBy' = cfg.sortBy
        /\ op' = name
        /\ threw' = (changed /\ getResultDataThrows(resultsListRows, postFilterListRows,
                                                    cfg.groupBy, cfg.sortBy))
        /\ posted' = IF changed
                     THEN PostData(resultsListRows, postFilterListRows, cols,
                                   filterCaseMatch, filterText, cfg.groupBy, cfg.sortBy)
                     ELSE <<>>
        /\ UNCHANGED <<resultsListRows, postFilterListRows, filterCaseMatch, filterText>>

\* ------------------------------------------------------------------ actions

\* The constructor: empty store and membership, no filter, every column
\* shown, then onSettingsChanged(undefined) against the stored settings,
\* which posts the first projection because this.sortBy was undefined.
Constructed(settings) ==
    /\ resultsListRows = <<>>
    /\ postFilterListRows = <<>>
    /\ filterCaseMatch = FALSE
    /\ filterText = <<>>
    /\ config \in settings
    /\ columns = ColumnsFrom(config.hideColumns)
    /\ groupBy = config.groupBy
    /\ sortBy = config.sortBy
    /\ pendingUpdates = <<>>
    /\ reveals = <<>>
    /\ op = "constructor"
    /\ threw = FALSE
    /\ posted = PostData(<<>>, <<>>, columns, FALSE, <<>>, groupBy, sortBy)

Init == Constructed(InitialSettings)

\* RemoveRows with the membership update forgotten: the rows are deleted
\* from the store and the membership list is left as it was.
RECURSIVE RemoveRowsKeepingMembers(_, _)
RemoveRowsKeepingMembers(state, diags) ==
    IF diags = <<>> THEN state
    ELSE RemoveRowsKeepingMembers([rows |-> MapDelete(state.rows, DiagId(Head(diags))),
                                   member |-> state.member],
                                  Tail(diags))

\* The removal loop of updateResultsListData.
RECURSIVE RemoveRows(_, _)
RemoveRows(state, diags) ==
    IF diags = <<>> THEN state
    ELSE LET id == DiagId(Head(diags))
             index == IndexOf(state.member, id)
         IN  RemoveRows([rows |-> MapDelete(state.rows, id),
                         member |-> IF index # -1
                                    THEN SpliceFrom(state.member, index)
                                    ELSE state.member],
                        Tail(diags))

\* UpsertRows that pushes the id of every passing row, already a member or
\* not.
RECURSIVE UpsertRowsPushing(_, _, _)
UpsertRowsPushing(state, diags, regEx) ==
    IF diags = <<>> THEN state
    ELSE LET row == createResultsListRow(Head(diags))
             id == RowId(row.runId.value, row.resultId.value)
             index == IndexOf(state.member, id)
         IN  UpsertRowsPushing([rows |-> MapSet(state.rows, id, row),
                                member |-> IF applyFilterToRow(row, regEx)
                                           THEN Append(state.member, id)
                                           ELSE IF index # -1
                                           THEN SpliceFrom(state.member, index)
                                           ELSE state.member],
                               Tail(diags), regEx)

\* The add/update loop of updateResultsListData.
RECURSIVE UpsertRows(_, _, _)
UpsertRows(state, diags, regEx) ==
    IF diags = <<>> THEN state
    ELSE LET row == createResultsListRow(Head(diags))
             id == RowId(row.runId.value, row.resultId.value)
             index == IndexOf(state.member, id)
         IN  UpsertRows([rows |-> MapSet(state.rows, id, row),
                         member |-> IF applyFilterToRow(row, regEx)
                                    THEN (IF index = -1
                                          THEN Append(state.member, id)
                                          ELSE state.member)
                                    ELSE IF index # -1
                                    THEN SpliceFrom(state.member, index)
                                    ELSE state.member],
                        Tail(diags), regEx)

\* updateResultsListData ending with a call of postDataToExplorer.
updateResultsListDataPosting(diags, remove) ==
    LET before == [rows |-> resultsListRows, member |-> postFilterListRows]
        fails == ~remove /\ generateFilterRegExpThrows(filterText)
        after == IF remove THEN RemoveRows(before, diags)
                 ELSE IF fails THEN before
                 ELSE UpsertRows(before, diags,
                                 generateFilterRegExp(filterText, filterCaseMatch))
    IN  /\ Len(after.rows) <= MaxRows
        /\ resultsListRows' = after.rows
        /\ postFilterListRows' = after.member
        /\ op' = IF remove THEN "updateResultsListData(remove)" ELSE "updateResultsListData"
        /\ threw' = fails
        /\ posted' = IF fails THEN <<>>
                     ELSE PostData(after.rows, after.member, columns, filterCaseMatch,
                                   filterText, groupBy, sortBy)
        /\ UNCHANGED <<filterCaseMatch, filterText, columns, groupBy, sortBy,
                       config, pendingUpdates, reveals>>

updateResultsListData(diags, remove) ==
    LET before == [rows |-> resultsListRows, member |-> postFilterListRows]
        fails == ~remove /\ generateFilterRegExpThrows(filterText)
        after == IF remove THEN RemoveRows(before, diags)
                 ELSE IF fails THEN before
                 ELSE UpsertRows(before, diags,
                                 generateFilterRegExp(filterText, filterCaseMatch))
    IN  \E result \in {after} :
        /\ Len(result.rows) <= MaxRows
        /\ resultsListRows' = result.rows
        /\ postFilterListRows' = result.member
        /\ op' = IF remove THEN "updateResultsListData(remove)" ELSE "updateResultsListData"
        /\ threw' = fails
        /\ posted' = <<>>
        /\ UNCHANGED <<filterCaseMatch, filterText, columns, groupBy, sortBy,
                       config, pendingUpdates, reveals>>

UpdateResultsListData == \E diags \in Batches, remove \in BOOLEAN : updateResultsListData(diags, remove)

\* updateFilteredRowsList followed by postDataToExplorer, under the filter
\* (text, caseMatch) the message handler has just stored.
Refilter(text, caseMatch, name) ==
    LET fails == generateFilterRegExpThrows(text)
        member == IF fails THEN <<>>
                  ELSE FilterRows(resultsListRows, text, generateFilterRegExp(text, caseMatch))
    IN  /\ filterText' = text
        /\ filterCaseMatch' = caseMatch
        /\ postFilterListRows' = member
        /\ op' = name
        /\ threw' = (fails \/ getResultDataThrows(resultsListRows, member, groupBy, sortBy))
        /\ posted' = IF fails THEN <<>>
                     ELSE PostData(resultsListRows, member, columns, caseMatch, text,
                                   groupBy, sortBy)
        /\ UNCHANGED <<resultsListRows, columns, groupBy, sortBy, config,
                       pendingUpdates, reveals>>

\* MessageType.ResultsListFilterApplied
FilterApplied(data) ==
    LET input == Trim(data)
    IN  IF input # filterText
        THEN Refilter(input, filterCaseMatch, "filterApplied")
        ELSE /\ op' = "filterApplied(same text)"
             /\ threw' = FALSE
             /\ posted' = <<>>
             /\ UNCHANGED <<engine, config, pendingUpdates, reveals>>

ResultsListFilterApplied == \E data \in FilterInputs : FilterApplied(data)

\* MessageType.ResultsListFilterCaseToggled
ResultsListFilterCaseToggled == Refilter(filterText, ~filterCaseMatch, "filterCaseToggled")

\* The settings source after the write u.
Written(cfg, u) ==
    CASE u.key = "resultsListHideColumns" -> [cfg EXCEPT !.hideColumns = u.value]
      [] u.key = "resultsListGroupBy" -> [cfg EXCEPT !.groupBy = u.value]
      [] u.key = "resultsListSortBy" -> [cfg EXCEPT !.sortBy = u.value]

\* WriteThrough that also stores the new value in the controller's own
\* view settings and posts, instead of waiting for the settings source.
WriteThroughAndApply(key, value, name) ==
    LET cfg == Written([hideColumns |-> config.hideColumns, groupBy |-> groupBy,
                        sortBy |-> sortBy], [key |-> key, value |-> value])
    IN  /\ Len(pendingUpdates) < MaxPending
        /\ pendingUpdates' = Append(pendingUpdates, [key |-> key, value |-> value])
        /\ columns' = ColumnsFrom(cfg.hideColumns)
        /\ groupBy' = cfg.groupBy
        /\ sortBy' = cfg.sortBy
        /\ op' = name
        /\ threw' = FALSE
        /\ posted' = PostData(resultsListRows, postFilterListRows, ColumnsFrom(cfg.hideColumns),
                              filterCaseMatch, filterText, cfg.groupBy, cfg.sortBy)
        /\ UNCHANGED <<resultsListRows, postFilterListRows, filterCaseMatch, filterText,
                       config, reveals>>

\* A settings message: the handler only calls sarifConfig.update, which
\* writes later.
WriteThrough(key, value, name) ==
    /\ Len(pendingUpdates) < MaxPending
    /\ pendingUpdates' = Append(pendingUpdates, [key |-> key, value |-> value])
    /\ op' = name
    /\ threw' = FALSE
    /\ posted' = <<>>
    /\ UNCHANGED <<engine, config, reveals>>

\* MessageType.ResultsListColumnToggled
ColumnToggled(data) ==
    LET hideColsConfig == config.hideColumns
        index == IndexOf(hideColsConfig, data)
    IN  WriteThrough("resultsListHideColumns",
                     IF index # -1 THEN SpliceOne(hideColsConfig, index)
                     ELSE Append(hideColsConfig, data),
                     "columnToggled")

ResultsListColumnToggled == \E data \in ToggleColumns : ColumnToggled(data)

\* MessageType.ResultsListGroupChanged
GroupChanged(data) == WriteThrough("resultsListGroupBy", data, "groupChanged")

ResultsListGroupChanged == \E data \in GroupColumns : GroupChanged(data)

\* SortByToWrite that resets the direction to ascending for the column it
\* is already sorted by, too.
SortByToWriteAscending(sortByConfig, data) == [column |-> data, ascending |-> TRUE]

\* The sort-by value a sort-change message for column data computes from the
\* stored one: the other direction for the same column, ascending for
\* another column.
SortByToWrite(sortByConfig, data) ==
    IF sortByConfig.column = data
    THEN [column |-> data, ascending |-> ~sortByConfig.ascending]
    ELSE [column |-> data, ascending |-> TRUE]

\* MessageType.ResultsListSortChanged
SortChanged(data) ==
    LET sortByConfig == config.sortBy
    IN  WriteThrough("resultsListSortBy", SortByToWrite(sortByConfig, data), "sortChanged")

ResultsListSortChanged == \E data \in SortColumns : SortChanged(data)

\* The oldest pending sarifConfig.update is written and the host fires
\* onDidChangeConfiguration for the section: onSettingsChanged runs against
\* the new settings.
ConfigurationWritten ==
    /\ pendingUpdates # <<>>
    /\ \E sameObject \in BOOLEAN :
          SettingsChanged(Written(config, Head(pendingUpdates)), sameObject, "onSettingsChanged")
    /\ config' = Written(config, Head(pendingUpdates))
    /\ pendingUpdates' = Tail(pendingUpdates)
    /\ UNCHANGED reveals

\* A configuration change that does not touch the three settings: of another
\* section (affects false: onSettingsChanged returns at once) or of another
\* key of this section (affects true).
ConfigurationChanged ==
    /\ \E affects \in BOOLEAN :
          IF affects
          THEN \E sameObject \in BOOLEAN :
                  SettingsChanged(config, sameObject, "onSettingsChanged")
          ELSE /\ op' = "onSettingsChangedElsewhere"
               /\ threw' = FALSE
               /\ posted' = <<>>
               /\ UNCHANGED engine
    /\ UNCHANGED <<config, pendingUpdates, reveals>>

\* MessageType.ResultsListResultSelected: the diagnostic is looked up (found
\* or not); its location is opened asynchronously. When getResultInfo finds
\* no diagnostic, reading diagnostic.resultInfo raises a TypeError.
ResultsListResultSelected ==
    /\ Len(reveals) < MaxReveals
    /\ \E id \in Ids, found \in BOOLEAN :
          /\ reveals' = IF found THEN Append(reveals, "openTextDocument") ELSE reveals
          /\ threw' = ~found
          /\ op' = IF found THEN "resultSelected" ELSE "resultSelected(no result)"
    /\ posted' = <<>>
    /\ UNCHANGED <<engine, config, pendingUpdates>>

\* OpenTextDocumentSettled with a rejection handler that resets the filter
\* result instead of only swallowing the failure.
OpenTextDocumentSettledResetting ==
    \E i \in 1..Len(reveals), resolved \in BOOLEAN :
        /\ reveals[i] = "openTextDocument"
        /\ reveals' = IF resolved THEN [reveals EXCEPT ![i] = "showTextDocument"]
                      ELSE SpliceOne(reveals, i - 1)
        /\ postFilterListRows' = IF resolved THEN postFilterListRows ELSE <<>>
        /\ op' = IF resolved THEN "documentOpened" ELSE "revealRejected"
        /\ threw' = FALSE
        /\ posted' = <<>>
        /\ UNCHANGED <<resultsListRows, filterCaseMatch, filterText, columns, groupBy,
                       sortBy, config, pendingUpdates>>

\* workspace.openTextDocument settles: the first callback asks for the
\* document to be shown, or the rejection handler swallows the failure.
OpenTextDocumentSettled ==
    \E i \in 1..Len(reveals), resolved \in BOOLEAN :
        /\ reveals[i] = "openTextDocument"
        /\ reveals' = IF resolved THEN [reveals EXCEPT ![i] = "showTextDocument"]
                      ELSE SpliceOne(reveals, i - 1)
        /\ op' = IF resolved THEN "documentOpened" ELSE "revealRejected"
        /\ threw' = FALSE
        /\ posted' = <<>>
        /\ UNCHANGED <<engine, config, pendingUpdates>>

\* window.showTextDocument settles: the second callback reveals the range
\* and selects its start, or the rejection handler swallows the failure.
ShowTextDocumentSettled ==
    \E i \in 1..Len(reveals), resolved \in BOOLEAN :
        /\ reveals[i] = "showTextDocument"
        /\ reveals' = SpliceOne(reveals, i - 1)
        /\ op' = IF resolved THEN "rangeRevealed" ELSE "revealRejected"
        /\ threw' = FALSE
        /\ posted' = <<>>
        /\ UNCHANGED <<engine, config, pendingUpdates>>

Next ==
    \/ UpdateResultsListData
    \/ ResultsListFilterApplied
    \/ ResultsListFilterCaseToggled
    \/ ResultsListColumnToggled
    \/ ResultsListGroupChanged
    \/ ResultsListSortChanged
    \/ ConfigurationWritten
    \/ ConfigurationChanged
    \/ ResultsListResultSelected
    \/ OpenTextDocumentSettled
    \/ ShowTextDocumentSettled

Spec == Init /\ [][Next]_vars

\* The feed and the filter box alone: the settings stay as constructed.
NextData ==
    \/ UpdateResultsListData
    \/ ResultsListFilterApplied
    \/ ResultsListFilterCaseToggled

SpecData == Init /\ [][NextData]_vars

\* The feed and the filter box over settings that group by one of the two
\* file columns and sort by position.
InitFiles == Constructed(FileSettings)

SpecFiles == InitFiles /\ [][NextData]_vars

\* The controller after construction and one batch of the feed: the state
\* the settings messages usually arrive in.
Loaded(settings) ==
    /\ config \in settings
    /\ \E diags \in FirstBatches :
          LET after == UpsertRows([rows |-> <<>>, member |-> <<>>], diags,
                                  generateFilterRegExp(<<>>, FALSE))
          IN  /\ resultsListRows = after.rows
              /\ postFilterListRows = after.member
    /\ filterCaseMatch = FALSE
    /\ filterText = <<>>
    /\ columns = ColumnsFrom(config.hideColumns)
    /\ groupBy = config.groupBy
    /\ sortBy = config.sortBy
    /\ pendingUpdates = <<>>
    /\ reveals = <<>>
    /\ op = "updateResultsListData"
    /\ threw = FALSE
    /\ posted = <<>>

InitLoaded == Loaded(InitialSettings)

\* The settings messages and the settings source, over a loaded store.
NextSettings ==
    \/ ResultsListColumnToggled
    \/ ResultsListGroupChanged
    \/ ResultsListSortChanged
    \/ ConfigurationWritten
    \/ ConfigurationChanged

SpecSettings == InitLoaded /\ [][NextSettings]_vars

\* The same over settings whose sort-by value was edited by hand.
InitMalformed == Loaded(MalformedSettings)

SpecMalformed == InitMalformed /\ [][NextSettings]_vars

\* Row selection and its callbacks, interleaved with the filter messages,
\* over a loaded store.
NextSelect ==
    \/ ResultsListFilterApplied
    \/ ResultsListFilterCaseToggled
    \/ ResultsListResultSelected
    \/ OpenTextDocumentSettled
    \/ ShowTextDocumentSettled

SpecSelect == InitLoaded /\ [][NextSelect]_vars

\* ------------------------------------------------------- derived quantities

\* Whether a stored row passes the filter (filterText, filterCaseMatch), as
\* updateFilteredRowsList decides it.
PassesFilter(row) ==
    \/ filterText = <<>>
    \/ applyFilterToRow(row, generateFilterRegExp(filterText, filterCaseMatch))

PassingIds ==
    {resultsListRows[i].key : i \in {j \in 1..Len(resultsListRows) :
                                        PassesFilter(resultsListRows[j].value)}}

MemberIds == Elements(postFilterListRows)

FilterIsValid == ~generateFilterRegExpThrows(filterText)

\* The projection getResultData builds in the current state.
CurrentProjection ==
    getResultData(resultsListRows, postFilterListRows, columns, filterCaseMatch,
                  filterText, groupBy, sortBy)

CurrentProjectionThrows ==
    getResultDataThrows(resultsListRows, postFilterListRows, groupBy, sortBy)

RECURSIVE SumRows(_)
SumRows(groups) == IF groups = <<>> THEN 0 ELSE Len(Head(groups).rows) + SumRows(Tail(groups))

UpdateOps == {"updateResultsListData", "updateResultsListData(remove)"}

\* --------------------------------------------------------------- properties

\* C1: in every state reached by updates, removals, filter-apply and
\* filter-case-toggle messages, while the filter text is a well-formed
\* pattern, postFilterListRows holds exactly the ids of the stored rows that
\* pass the filter, each once.
C1_MembershipIsThePassingRows ==
    FilterIsValid =>
        /\ MemberIds = PassingIds
        /\ Len(postFilterListRows) = Cardinality(MemberIds)

\* C2: every id in postFilterListRows is a key of resultsListRows, so the
\* lookup of getResultData finds a row for every member.
C2_MembershipWithinStore ==
    \A i \in 1..Len(postFilterListRows) : MapHas(resultsListRows, postFilterListRows[i])

\* C2 witness: a removal has left a row behind that is still a member.
C2_Witness ==
    /\ op = "updateResultsListData(remove)"
    /\ postFilterListRows # <<>>
    /\ Len(resultsListRows) >= Len(postFilterListRows)

\* C3: the projection's resultCount is the size of the store, and its groups
\* hold together as many rows as stored rows pass the filter.
C3_ProjectionCounts ==
    (FilterIsValid /\ ~CurrentProjectionThrows) =>
        /\ CurrentProjection.resultCount = Len(resultsListRows)
        /\ SumRows(CurrentProjection.groups) = Cardinality(PassingIds)

\* C4: removing one id changes that id only: nothing when it is not stored,
\* otherwise one row less in the store and exactly that id out of the
\* membership list.
C4_RemovalAffectsThatIdOnly ==
    [][\A d \in Diags :
          updateResultsListData(<<d>>, TRUE) =>
              IF MapHas(resultsListRows, DiagId(d))
              THEN /\ Len(resultsListRows') = Len(resultsListRows) - 1
                   /\ Elements(postFilterListRows') = MemberIds \ {DiagId(d)}
              ELSE /\ resultsListRows' = resultsListRows
                   /\ postFilterListRows' = postFilterListRows]_vars

\* C5: updateResultsListData hands nothing to setResultsListData, and what
\* any operation hands over is built from the state the whole operation
\* left.
C5_UpdateNeverPosts ==
    /\ op \in UpdateOps => posted = <<>>
    /\ posted # <<>> => posted = <<CurrentProjection>>

\* C5 witness: a batch of two different rows has been stored, both members,
\* and nothing was posted.
C5_Witness ==
    /\ op = "updateResultsListData"
    /\ Len(resultsListRows) >= 2
    /\ Len(postFilterListRows) >= 2
    /\ posted = <<>>

\* C8: a filter-apply message with a new text, and every filter-case-toggle
\* message, leaves the membership list recomputed from the whole store under
\* the new filter and hands setResultsListData exactly one projection, built
\* from that membership.
C8_FilterChangePostsOnce ==
    op \in {"filterApplied", "filterCaseToggled"} =>
        /\ Len(posted) = 1
        /\ posted[1] = CurrentProjection
        /\ postFilterListRows =
               FilterRows(resultsListRows, filterText,
                          generateFilterRegExp(filterText, filterCaseMatch))

\* C9: while the filter text is a malformed pattern no operation ends with
\* an exception, and the membership list holds no row or every row.
C9_InvalidPatternNeverThrows ==
    ~FilterIsValid =>
        /\ ~threw
        /\ \/ postFilterListRows = <<>>
           \/ MemberIds = MapKeys(resultsListRows)

SettingsMessageOps == {"columnToggled", "groupChanged", "sortChanged"}

RevealOps == {"resultSelected", "resultSelected(no result)", "documentOpened",
              "rangeRevealed", "revealRejected"}

viewSettings == <<columns, groupBy, sortBy>>

\* C6: onSettingsChanged posts a projection exactly when one of the three
\* facets of the settings differs from the controller's value, that is,
\* exactly when the call changes columns, groupBy or sortBy.
C6_PostsIffSettingsDiffer ==
    [][op' = "onSettingsChanged" =>
          ((posted' # <<>>) <=> (viewSettings' # viewSettings))]_vars

\* C7: a column-toggle, group-change or sort-change message only queues the
\* new value for the settings source: the controller's state is unchanged
\* and nothing is posted; columns, groupBy and sortBy change only in
\* onSettingsChanged.
C7_SettingsMessagesOnlyWriteThrough ==
    [][/\ op' \in SettingsMessageOps =>
            /\ engine' = engine
            /\ posted' = <<>>
            /\ Len(pendingUpdates') = Len(pendingUpdates) + 1
       /\ viewSettings' # viewSettings => op' = "onSettingsChanged"]_vars

\* C7 witness: a sort-change message has queued a sort-by value that the
\* controller does not have, over a store with rows.
C7_Witness ==
    /\ op = "sortChanged"
    /\ pendingUpdates # <<>>
    /\ pendingUpdates[Len(pendingUpdates)].key = "resultsListSortBy"
    /\ pendingUpdates[Len(pendingUpdates)].value # sortBy
    /\ resultsListRows # <<>>

\* C10: a row-select message and the callbacks of its open/reveal chain
\* leave the store, the membership list, the filter and the view settings
\* unchanged and post nothing, wherever they fall among other operations.
C10_SelectionLeavesEngineAlone ==
    [][op' \in RevealOps => (engine' = engine /\ posted' = <<>>)]_vars

\* C10 witness: an open/reveal chain was rejected while rows are stored and
\* filtered.
C10_Witness ==
    /\ op = "revealRejected"
    /\ postFilterListRows # <<>>
    /\ filterCaseMatch

\* C11: a row-select message whose id names no existing result is a no-op:
\* the handler raises nothing and asks for no document to be opened.
C11_UnknownResultSelectIsNoOp ==
    [][op' = "resultSelected(no result)" => (~threw' /\ reveals' = reveals)]_vars

\* The orders a list can be in with the same elements.
Orderings(seq) ==
    {[i \in 1..Len(seq) |-> seq[f[i]]] : f \in Permutations(1..Len(seq))}

\* The projection the current state would give with the membership list in
\* another order.
ProjectionOf(member) ==
    getResultData(resultsListRows, member, columns, filterCaseMatch, filterText,
                  groupBy, sortBy)

\* The groups of a projection without their order: the set of rows of each.
GroupSets(data) == {Elements(data.groups[g].rows) : g \in 1..Len(data.groups)}

\* C12 as stated: a step that reorders the membership list and leaves the
\* stored rows, the set of member ids and the view settings as they were
\* leaves the groups of the projection as they were, group order and row
\* order included.
C12_ProjectionIgnoresHistory ==
    [][(/\ postFilterListRows' # postFilterListRows
        /\ Elements(resultsListRows') = Elements(resultsListRows)
        /\ Elements(postFilterListRows') = MemberIds
        /\ Len(postFilterListRows') = Len(postFilterListRows)
        /\ viewSettings' = viewSettings
        /\ ~CurrentProjectionThrows /\ ~CurrentProjectionThrows')
          => CurrentProjection'.groups = CurrentProjection.groups]_vars

\* C12: the projection is a function of the stored rows, the membership
\* list in its order and the view settings; with only the set of member ids
\* fixed it is determined up to the order of groups and of rows: whatever
\* order the membership list is in, the projection has the same resultCount,
\* as many groups, and the same rows in each group.
C12_ProjectionUpToOrder ==
    ~CurrentProjectionThrows =>
        \A member \in Orderings(postFilterListRows) :
            /\ ProjectionOf(member).resultCount = CurrentProjection.resultCount
            /\ Len(ProjectionOf(member).groups) = Len(CurrentProjection.groups)
            /\ GroupSets(ProjectionOf(member)) = GroupSets(CurrentProjection)

\* C12 witness: three members, two of one rule with a row of another rule
\* between them, grouped by rule.
C12_Witness ==
    /\ groupBy = "ruleId"
    /\ Len(postFilterListRows) = 3
    /\ ~CurrentProjectionThrows
    /\ MapGet(resultsListRows, postFilterListRows[1]).ruleId
         = MapGet(resultsListRows, postFilterListRows[3]).ruleId
    /\ MapGet(resultsListRows, postFilterListRows[1]).ruleId
         # MapGet(resultsListRows, postFilterListRows[2]).ruleId

\* C13: with a sort-by setting that has no column, or names a field no row
\* has, no operation ends with an exception: onSettingsChanged and the
\* getResultData it calls complete normally.
C13_MalformedSortByNeverThrows ==
    sortBy.column \notin RowFields => ~threw

\* The update queued last.
LastPending(queue) == queue[Len(queue)]

\* C14 as stated: a sort-change message for column c queues {c, not a} when
\* the stored sort-by is {c, a} and {c, true} when the stored column is
\* another one, and the second of two consecutive sort-change messages for
\* the stored column queues the original direction again.
C14_TwoSortChangesRestoreDirection ==
    [][op' = "sortChanged" =>
          LET stored == config.sortBy
              written == LastPending(pendingUpdates').value
          IN  /\ stored.column = written.column => written.ascending = ~stored.ascending
              /\ stored.column # written.column => written.ascending
              /\ (/\ op = "sortChanged"
                  /\ LastPending(pendingUpdates).value.column = written.column
                  /\ stored.column = written.column)
                    => written.ascending = stored.ascending]_vars

\* C14: a sort-change message for column c queues {c, not a} when the stored
\* sort-by is {c, a} and {c, true} when the stored column is another one;
\* once that write has reached the settings source, a second message for c
\* computes the original value from it.
C14_SortChangeToggles ==
    [][op' = "sortChanged" =>
          LET stored == config.sortBy
              written == LastPending(pendingUpdates').value
          IN  /\ pendingUpdates' = Append(pendingUpdates,
                                          [key |-> "resultsListSortBy", value |-> written])
              /\ written.column \in SortColumns
              /\ stored.column = written.column => written.ascending = ~stored.ascending
              /\ stored.column # written.column => written.ascending
              /\ stored.column = written.column =>
                    SortByToWrite(written, written.column) = stored]_vars

\* C14 witness: a sort-change message for the stored column has queued the
\* descending direction, and one for another column the ascending one.
C14_Witness ==
    /\ op = "sortChanged"
    /\ Len(pendingUpdates) = 1
    /\ LastPending(pendingUpdates).value.column = config.sortBy.column
    /\ config.sortBy.ascending
    /\ ~LastPending(pendingUpdates).value.ascending

\* The store and the membership list after updateResultsListData upserts one
\* diagnostic under the current filter (unchanged when the filter text is
\* no valid pattern and the call is abandoned).
AfterUpsert(state, d) ==
    IF generateFilterRegExpThrows(filterText) THEN state
    ELSE UpsertRows(state, <<d>>, generateFilterRegExp(filterText, filterCaseMatch))

\* C15: upserting the same row twice in a row, under an unchanged filter,
\* leaves the store and the membership list as upserting it once does.
C15_UpsertTwiceIsUpsertOnce ==
    \A d \in Diags :
        LET once == AfterUpsert([rows |-> resultsListRows, member |-> postFilterListRows], d)
        IN  AfterUpsert(once, d) = once

\* C15 witness: an upsert has left stored rows of which some pass a filter
\* and some do not.
C15_Witness ==
    /\ op = "updateResultsListData"
    /\ ~threw
    /\ filterText # <<>>
    /\ postFilterListRows # <<>>
    /\ Len(resultsListRows) > Len(postFilterListRows)

\* The fields applyFilterToRow tests, and those of them a row has a display
\* string for.
FilterFields == {"message", "ruleId", "ruleName", "severityLevel", "resultFile", "sarifFile"}

DisplayStrings(row) == {row[f].value : f \in {g \in FilterFields : row[g].type = "string"}}

\* C16: under a valid filter the matcher accepts a stored row exactly when
\* one of its six display strings matches the filter text with the
\* configured case sensitivity; the empty filter accepts every row.
C16_AcceptsIffADisplayStringMatches ==
    FilterIsValid =>
        \A i \in 1..Len(resultsListRows) :
            LET row == resultsListRows[i].value
                regExp == generateFilterRegExp(filterText, filterCaseMatch)
            IN  applyFilterToRow(row, regExp)
                  <=> (filterText = <<>> \/ \E str \in DisplayStrings(row) : RegExpTest(regExp, str))

\* The rows of the members, in the order of the membership list.
MemberRows == [i \in 1..Len(postFilterListRows) |-> MapGet(resultsListRows, postFilterListRows[i])]

\* Whether two rows are in one group of the current projection.
InOneGroup(a, b) ==
    \E g \in 1..Len(CurrentProjection.groups) :
        {a, b} \subseteq Elements(CurrentProjection.groups[g].rows)

\* C17: grouped by resultFile or sarifFile, two member rows are in one
\* group exactly when their full paths (tooltips) are the same, whatever
\* their short names; and a group's text is the short name of the first
\* member row with the group's full path.
C17_FileGroupsByFullPath ==
    (groupBy \in {"resultFile", "sarifFile"} /\ ~CurrentProjectionThrows) =>
        /\ \A i, j \in 1..Len(MemberRows) :
              InOneGroup(MemberRows[i], MemberRows[j])
                <=> MemberRows[i][groupBy].tooltip = MemberRows[j][groupBy].tooltip
        /\ \A g \in 1..Len(CurrentProjection.groups) :
              LET group == CurrentProjection.groups[g]
                  first == CHOOSE i \in 1..Len(MemberRows) :
                               /\ MemberRows[i][groupBy].tooltip = group.tooltip
                               /\ \A j \in 1..(i - 1) :
                                      MemberRows[j][groupBy].tooltip # group.tooltip
              IN  group.text = MemberRows[first][groupBy].value

\* C17 witness: a filter message has posted a projection grouped by
\* resultFile whose members include two rows with the same short file name
\* and different full paths.
C17_Witness ==
    /\ op = "filterApplied"
    /\ posted # <<>>
    /\ groupBy = "resultFile"
    /\ \E i, j \in 1..Len(MemberRows) :
          /\ MemberRows[i].resultFile.value = MemberRows[j].resultFile.value
          /\ MemberRows[i].resultFile.tooltip # MemberRows[j].resultFile.tooltip

\* The place in the membership list of the first row of a group.
FirstMember(group) ==
    CHOOSE i \in 1..Len(MemberRows) :
        /\ MemberRows[i] \in Elements(group.rows)
        /\ \A j \in 1..(i - 1) : MemberRows[j] \notin Elements(group.rows)

\* C18: the groups of a projection come by non-increasing row count, and
\* groups of equal count in the order in which the membership list first
\* meets a row of each.
C18_GroupsByCountThenEncounter ==
    ~CurrentProjectionThrows =>
        \A g, h \in 1..Len(CurrentProjection.groups) :
            g < h =>
                LET first == CurrentProjection.groups[g]
                    second == CurrentProjection.groups[h]
                IN  /\ Len(first.rows) >= Len(second.rows)
                    /\ Len(first.rows) = Len(second.rows)
                          => FirstMember(first) < FirstMember(second)

\* C18 witness: the projection starts with a group of two rows although
\* the membership list starts with the row of a group of one.
C18_Witness ==
    /\ ~CurrentProjectionThrows
    /\ Len(CurrentProjection.groups) = 2
    /\ Len(CurrentProjection.groups[1].rows) = 2
    /\ FirstMember(CurrentProjection.groups[2]) = 1

\* The comparator applied to two rows as its operands a and b, for the
\* current sort column.
Compared(a, b) == CompareRows(a, b, [column |-> sortBy.column, ascending |-> TRUE])

\* C19: for the current sort column and any two stored rows, the comparator
\* treats an undefined value as less than any defined one whichever operand
\* holds it: negative for (undefined, defined), positive for (defined,
\* undefined), zero for (undefined, undefined).
C19_UndefinedIsLeast ==
    \A i, j \in 1..Len(resultsListRows) :
        LET a == resultsListRows[i].value
            b == resultsListRows[j].value
            undefinedA == a[sortBy.column].type = "undefined"
            undefinedB == b[sortBy.column].type = "undefined"
        IN  /\ (undefinedA /\ ~undefinedB) => Compared(a, b) < 0
            /\ (~undefinedA /\ undefinedB) => Compared(a, b) > 0
            /\ (undefinedA /\ undefinedB) => Compared(a, b) = 0

Reverse(seq) == [i \in 1..Len(seq) |-> seq[Len(seq) + 1 - i]]

\* The groups of the projection of the current store and membership list
\* sorted by position in the given direction.
GroupsByPosition(ascending) ==
    getResultData(resultsListRows, postFilterListRows, columns, filterCaseMatch,
                  filterText, groupBy,
                  [column |-> "resultStartPos", ascending |-> ascending]).groups

\* Whether position p comes before position q: by line, then by character.
PositionBefore(p, q) == p[1] < q[1] \/ (p[1] = q[1] /\ p[2] < q[2])

\* C20: sorted by resultStartPos, a group whose rows have pairwise
\* different positions has its rows by line, then by column, when
\* ascending, and in exactly the reverse order when descending.
C20_DescendingReversesAscending ==
    (sortBy.column = "resultStartPos" /\ ~CurrentProjectionThrows) =>
        \A g \in 1..Len(GroupsByPosition(TRUE)) :
            LET up == GroupsByPosition(TRUE)[g].rows
                down == GroupsByPosition(FALSE)[g].rows
            IN  (\A i, j \in 1..Len(up) :
                    i # j => up[i].resultStartPos.pos # up[j].resultStartPos.pos)
                  => /\ \A i, j \in 1..Len(up) :
                          i < j => PositionBefore(up[i].resultStartPos.pos,
                                                  up[j].resultStartPos.pos)
                     /\ down = Reverse(up)

\* C20 witness: a posted projection, sorted ascending, holds results 1_2
\* at (2, 5) and 1_1 at (2, 9) in one group in that order, although 1_1 is
\* the first member.
C20_Witness ==
    /\ posted # <<>>
    /\ sortBy = [column |-> "resultStartPos", ascending |-> TRUE]
    /\ postFilterListRows # <<>>
    /\ postFilterListRows[1] = RowId(1, 1)
    /\ Len(posted[1].groups[1].rows) = 2
    /\ posted[1].groups[1].rows[1].resultStartPos.pos = <<1, 4>>
    /\ posted[1].groups[1].rows[2].resultStartPos.pos = <<1, 8>>

====
